---- MODULE Spec2Model ----
(***************************************************************************)
(* Model of src/frontend/xgboost_json.cc: the SAX handlers that turn the   *)
(* event stream of an XGBoost JSON model dump into a treelite model.       *)
(*                                                                         *)
(* A behaviour is one call of ParseStream: the document (a sequence of     *)
(* tokenizer events) is drawn in Init, every action is one callback of     *)
(* DelegatedHandler, which forwards the event to the handler on top of the *)
(* delegation stack.                                                       *)
(*                                                                         *)
(* Conventions.  Node and array indices are 0-based in the source; the     *)
(* sequences of the model are 1-based, so element i of a vector is v[i+1]. *)
(* Doubles carried by Double events are integer-valued.  Text carried by   *)
(* String events is a sequence of one-character strings, so that atoi and  *)
(* strtof are computed and not assumed.  The global bias is kept in tenths *)
(* (strtof reads one decimal digit).                                       *)
(***************************************************************************)
EXTENDS Integers, Sequences, FiniteSets, TLC

(***************************************************************************)
(* Bounds of the input documents.                                          *)
(***************************************************************************)
MaxNodes == 3
MaxTrees == 2
MaxTopMembers == 3
MaxLearnerMembers == 2
MaxBoosterMembers == 2
MaxParamMembers == 2
MaxIgnoreDepth == 2

(***************************************************************************)
(* Tokenizer events (rapidjson's SAX callbacks).  Every event is a record  *)
(* with the same fields: t the kind, s the key of a Key event, n the       *)
(* number of a numeric or Bool event (1 is true) or the member/element     *)
(* count of an End event, c the characters of a String event.              *)
(***************************************************************************)
EvRec(t, s, n, c) == [t |-> t, s |-> s, n |-> n, c |-> c]
EvNull == EvRec("Null", "", 0, <<>>)
EvBool(b) == EvRec("Bool", "", IF b THEN 1 ELSE 0, <<>>)
EvInt(i) == EvRec("Int", "", i, <<>>)
EvUint(u) == EvRec("Uint", "", u, <<>>)
EvInt64(i) == EvRec("Int64", "", i, <<>>)
EvUint64(u) == EvRec("Uint64", "", u, <<>>)
EvDouble(d) == EvRec("Double", "", d, <<>>)
EvString(c) == EvRec("String", "", 0, c)
EvKey(k) == EvRec("Key", k, 0, <<>>)
EvStartObject == EvRec("StartObject", "", 0, <<>>)
EvEndObject(m) == EvRec("EndObject", "", m, <<>>)
EvStartArray == EvRec("StartArray", "", 0, <<>>)
EvEndArray(m) == EvRec("EndArray", "", m, <<>>)
\* the tokenizer's own failure: malformed or truncated JSON text
EvSyntaxError == EvRec("SyntaxError", "", 0, <<>>)

RECURSIVE Concat(_)
Concat(ss) == IF ss = <<>> THEN <<>> ELSE Head(ss) \o Concat(Tail(ss))

\* JSON values as event sequences
JObj(members) == <<EvStartObject>> \o Concat(members) \o <<EvEndObject(Len(members))>>
JArr(elems) == <<EvStartArray>> \o Concat(elems) \o <<EvEndArray(Len(elems))>>
JMem(k, v) == <<EvKey(k)>> \o v
JStr(c) == <<EvString(c)>>
JNum(e) == <<e>>

\* all sequences over S of length 0..n
RECURSIVE SeqsUpTo(_, _)
SeqsUpTo(S, n) ==
  IF n = 0 THEN {<<>>}
  ELSE LET shorter == SeqsUpTo(S, n - 1)
       IN shorter \cup {Append(q, x) : q \in {r \in shorter : Len(r) = n - 1}, x \in S}

(***************************************************************************)
(* Text conversions of the C library, on character sequences.              *)
(***************************************************************************)
Digits == {"0", "1", "2", "3", "4", "5", "6", "7", "8", "9"}
DigitVal(ch) ==
  CASE ch = "0" -> 0 [] ch = "1" -> 1 [] ch = "2" -> 2 [] ch = "3" -> 3
    [] ch = "4" -> 4 [] ch = "5" -> 5 [] ch = "6" -> 6 [] ch = "7" -> 7
    [] ch = "8" -> 8 [] ch = "9" -> 9

RECURSIVE SkipSpace(_)
SkipSpace(c) == IF c # <<>> /\ Head(c) = " " THEN SkipSpace(Tail(c)) ELSE c

RECURSIVE DigitRun(_, _)
\* value of the longest prefix of digits of c, continuing acc
DigitRun(c, acc) ==
  IF c # <<>> /\ Head(c) \in Digits
  THEN DigitRun(Tail(c), 10 * acc + DigitVal(Head(c)))
  ELSE acc

RECURSIVE DropDigits(_)
DropDigits(c) == IF c # <<>> /\ Head(c) \in Digits THEN DropDigits(Tail(c)) ELSE c

\* atoi: blanks, an optional sign, then digits up to the first other character
atoi(c) ==
  LET t == SkipSpace(c)
  IN IF t # <<>> /\ Head(t) = "-" THEN 0 - DigitRun(Tail(t), 0)
     ELSE IF t # <<>> /\ Head(t) = "+" THEN DigitRun(Tail(t), 0)
     ELSE DigitRun(t, 0)

\* strtof, in tenths: blanks, optional sign, digits, optional "." and one digit
strtof(c) ==
  LET t == SkipSpace(c)
      neg == t # <<>> /\ Head(t) = "-"
      u == IF t # <<>> /\ Head(t) \in {"-", "+"} THEN Tail(t) ELSE t
      whole == DigitRun(u, 0)
      r == DropDigits(u)
      frac == IF Len(r) >= 2 /\ r[1] = "." /\ r[2] \in Digits THEN DigitVal(r[2]) ELSE 0
      mag == 10 * whole + frac
  IN IF neg THEN 0 - mag ELSE mag

(***************************************************************************)
(* The output tree container (treelite::Tree<float, float>), by the        *)
(* operations RegTreeHandler::EndObject calls on it.  New node IDs are     *)
(* handed out in allocation order, starting with the root 0.               *)
(***************************************************************************)
FreshNode ==
  [leaf |-> TRUE, cleft |-> -1, cright |-> -1, split_index |-> 0, threshold |-> 0,
   default_left |-> FALSE, cmp |-> "kNone", leaf_value |-> 0, gain |-> 0,
   sum_hess |-> 0]

\* a default-constructed Tree holds no node until Init() gives it its root
EmptyTree == <<>>
Tree_Init == <<FreshNode>>

Tree_AddChilds(tree, nid) ==
  LET l == Len(tree)
      grown == tree \o <<FreshNode, FreshNode>>
  IN [grown EXCEPT ![nid + 1].cleft = l, ![nid + 1].cright = l + 1,
                   ![nid + 1].leaf = FALSE]

Tree_LeftChild(tree, nid) == tree[nid + 1].cleft
Tree_RightChild(tree, nid) == tree[nid + 1].cright

Tree_SetLeaf(tree, nid, value) ==
  [tree EXCEPT ![nid + 1].leaf = TRUE, ![nid + 1].leaf_value = value,
               ![nid + 1].cleft = -1, ![nid + 1].cright = -1]

Tree_SetNumericalSplit(tree, nid, split_index, threshold, default_left, cmp) ==
  [tree EXCEPT ![nid + 1].split_index = split_index,
               ![nid + 1].threshold = threshold,
               ![nid + 1].default_left = default_left,
               ![nid + 1].cmp = cmp]

Tree_SetGain(tree, nid, gain) == [tree EXCEPT ![nid + 1].gain = gain]
Tree_SetSumHess(tree, nid, sum_hess) == [tree EXCEPT ![nid + 1].sum_hess = sum_hess]

(***************************************************************************)
(* The model under construction and the members of the handlers.           *)
(***************************************************************************)
\* global_bias: v is the value in tenths, via the margin functions applied to it
\* random_forest_flag is "unset" until the parser assigns it
NewModel ==
  [global_bias |-> [v |-> 0, via |-> <<>>], pred_transform |-> "identity",
   num_output_group |-> 1, num_feature |-> 0, random_forest_flag |-> "unset",
   trees |-> <<>>, bias_transforms |-> 0]

\* a RegTreeHandler as constructed: ten empty vectors, num_nodes not yet written;
\* visited records the (old ID, new ID) pairs EndObject took from its queue
NewRegTree ==
  [num_nodes |-> 0, num_nodes_written |-> FALSE, visited |-> <<>>,
   loss_changes |-> <<>>, sum_hessian |-> <<>>, base_weights |-> <<>>,
   leaf_child_counts |-> <<>>, left_children |-> <<>>, right_children |-> <<>>,
   parents |-> <<>>, split_indices |-> <<>>, split_conditions |-> <<>>,
   default_left |-> <<>>]

TreeArrays ==
  <<"loss_changes", "sum_hessian", "base_weights", "leaf_child_counts",
    "left_children", "right_children", "parents", "split_indices",
    "split_conditions", "default_left">>

\* what an indeterminate int may hold when it is read
GarbageInts == -1 .. MaxNodes

Frame(h, out) == [h |-> h, cur_key |-> "", out |-> out]

(***************************************************************************)
(* A handler callback maps the handlers' state S (a record of delegates,   *)
(* result, version, objective, rt) to the set of its possible outcomes:    *)
(* how is "true" or "false" (the callback's return value) or "crash"       *)
(* (undefined behaviour that ends the process), st the state it leaves.    *)
(***************************************************************************)
Accept(S) == {[how |-> "true", st |-> S]}
Reject(S) == {[how |-> "false", st |-> S]}
Crash(S) == {[how |-> "crash", st |-> S]}

Top(S) == S.delegates[Len(S.delegates)]

(***************************************************************************)
(* BaseHandler                                                             *)
(***************************************************************************)
pop_delegate(S) == [S EXCEPT !.delegates = SubSeq(S.delegates, 1, Len(S.delegates) - 1)]

\* the delegator outlives the parse, so lock() succeeds
BaseHandler_pop_handler(S) == Accept(pop_delegate(S))

BaseHandler_set_cur_key(S, k) == [S EXCEPT !.delegates[Len(S.delegates)].cur_key = k]

BaseHandler_check_cur_key(S, query_key) == Top(S).cur_key = query_key

\* the members of a freshly constructed handler of class h
Construct(S, h) ==
  CASE h = "XGBoostModelHandler" -> [S EXCEPT !.version = <<>>]
    [] h = "LearnerHandler" -> [S EXCEPT !.objective = <<>>]
    [] h = "RegTreeHandler" -> [S EXCEPT !.rt = NewRegTree]
    [] OTHER -> S

push_delegate(S, h, out) == [S EXCEPT !.delegates = Append(S.delegates, Frame(h, out))]

BaseHandler_push_handler(S, h, out) == push_delegate(Construct(S, h), h, out)

\* the first entry <<key, handler, output>> of keyed whose key is the current key
RECURSIVE FirstMatch(_, _)
FirstMatch(S, keyed) ==
  IF keyed = <<>> THEN <<>>
  ELSE IF BaseHandler_check_cur_key(S, Head(keyed)[1]) THEN Head(keyed)
  ELSE FirstMatch(S, Tail(keyed))

\* push_key_handler(k1, ..) || push_key_handler(k2, ..) || ...
BaseHandler_push_key_handler(S, keyed) ==
  LET m == FirstMatch(S, keyed)
  IN IF m = <<>> THEN Reject(S) ELSE Accept(BaseHandler_push_handler(S, m[2], m[3]))

BaseHandler_Key(S, k) == Accept(BaseHandler_set_cur_key(S, k))

\* every other callback of BaseHandler rejects the event
BaseHandler_Primitive(S) == Reject(S)
BaseHandler_StartObject(S) == Reject(S)
BaseHandler_StartArray(S) == Reject(S)
BaseHandler_EndObject(S) == BaseHandler_pop_handler(S)
BaseHandler_EndArray(S) == BaseHandler_pop_handler(S)

(***************************************************************************)
(* IgnoreHandler                                                           *)
(***************************************************************************)
IgnoreHandler_Primitive(S) == Accept(S)
IgnoreHandler_StartObject_NoPush(S) == Accept(S)

IgnoreHandler_StartObject(S) == Accept(BaseHandler_push_handler(S, "IgnoreHandler", ""))
\* Key is accepted without recording the key
IgnoreHandler_Key(S) == Accept(S)
IgnoreHandler_StartArray(S) == Accept(BaseHandler_push_handler(S, "IgnoreHandler", ""))

(***************************************************************************)
(* ArrayHandler<ElemType, HandlerType>, an OutputHandler on the vector     *)
(* named by the frame's out.                                               *)
(***************************************************************************)
ElemType(out) ==
  CASE out \in {"loss_changes", "sum_hessian", "base_weights", "split_conditions"} -> "double"
    [] out \in {"leaf_child_counts", "left_children", "right_children", "parents",
                "split_indices"} -> "int"
    [] out = "default_left" -> "bool"
    [] out = "version" -> "unsigned"
    [] out = "trees" -> "tree"

\* output.push_back(x) on the vector the handler was given
PushBack(S, out, x) ==
  CASE out = "version" -> [S EXCEPT !.version = Append(@, x)]
    [] out = "trees" -> [S EXCEPT !.result.trees = Append(@, x)]
    [] OTHER -> [S EXCEPT !.rt[out] = Append(@, x)]

ArrayHandler_Bool(S, b) ==
  IF ElemType(Top(S).out) = "bool" THEN Accept(PushBack(S, Top(S).out, b = 1))
  ELSE Reject(S)

\* Int reaches the handler for negative numbers, Uint for the others
ArrayHandler_Int(S, i) ==
  IF ElemType(Top(S).out) = "int" THEN Accept(PushBack(S, Top(S).out, i))
  ELSE Reject(S)

ArrayHandler_Uint(S, u) ==
  IF ElemType(Top(S).out) \in {"int", "unsigned"} THEN Accept(PushBack(S, Top(S).out, u))
  ELSE Reject(S)

ArrayHandler_Double(S, d) ==
  IF ElemType(Top(S).out) = "double" THEN Accept(PushBack(S, Top(S).out, d))
  ELSE Reject(S)

\* an element that is an object: a new element is put in the vector first, and
\* its handler fills it in place
ArrayHandler_StartObject(S) ==
  IF ElemType(Top(S).out) = "tree"
  THEN Accept(BaseHandler_push_handler(PushBack(S, "trees", EmptyTree), "RegTreeHandler", "tree"))
  ELSE Reject(S)

(***************************************************************************)
(* TreeParamHandler, an OutputHandler on RegTreeHandler::num_nodes         *)
(***************************************************************************)
TreeParamHandler_String_NoDeprecated(S, str) ==
  IF BaseHandler_check_cur_key(S, "num_feature") THEN Accept(S)
  ELSE IF BaseHandler_check_cur_key(S, "num_nodes")
  THEN Accept([S EXCEPT !.rt.num_nodes = atoi(str), !.rt.num_nodes_written = TRUE])
  ELSE IF BaseHandler_check_cur_key(S, "size_leaf_vector") THEN Accept(S)
  ELSE Reject(S)

TreeParamHandler_String(S, str) ==
  IF BaseHandler_check_cur_key(S, "num_feature") THEN Accept(S)
  ELSE IF BaseHandler_check_cur_key(S, "num_nodes")
  THEN Accept([S EXCEPT !.rt.num_nodes = atoi(str), !.rt.num_nodes_written = TRUE])
  ELSE IF BaseHandler_check_cur_key(S, "size_leaf_vector")
          \/ BaseHandler_check_cur_key(S, "num_deleted") THEN Accept(S)
  ELSE Reject(S)

(***************************************************************************)
(* RegTreeHandler, an OutputHandler on the tree at the back of the model's *)
(* tree vector.                                                            *)
(***************************************************************************)
RegTreeHandler_StartArray(S) ==
  BaseHandler_push_key_handler(S,
    <<<<"loss_changes", "ArrayHandler", "loss_changes">>,
      <<"sum_hessian", "ArrayHandler", "sum_hessian">>,
      <<"base_weights", "ArrayHandler", "base_weights">>,
      <<"categories", "IgnoreHandler", "">>,
      <<"leaf_child_counts", "ArrayHandler", "leaf_child_counts">>,
      <<"left_children", "ArrayHandler", "left_children">>,
      <<"right_children", "ArrayHandler", "right_children">>,
      <<"parents", "ArrayHandler", "parents">>,
      <<"split_indices", "ArrayHandler", "split_indices">>,
      <<"split_type", "IgnoreHandler", "">>,
      <<"split_conditions", "ArrayHandler", "split_conditions">>,
      <<"default_left", "ArrayHandler", "default_left">>>>)

RegTreeHandler_StartObject(S) ==
  BaseHandler_push_key_handler(S, <<<<"tree_param", "TreeParamHandler", "num_nodes">>>>)

RegTreeHandler_Uint(S) ==
  IF BaseHandler_check_cur_key(S, "id") THEN Accept(S) ELSE Reject(S)

\* num_nodes != v.size(): the int is converted to size_t, so a negative
\* num_nodes is a huge number and differs from every size
SizeDiffers(num_nodes, v) == num_nodes < 0 \/ num_nodes # Len(v)

LengthMismatch_SkipsLast(r, num_nodes) ==
  \E i \in 1 .. Len(TreeArrays) - 1 : SizeDiffers(num_nodes, r[TreeArrays[i]])

\* the condition of the if that rejects the tree
LengthMismatch(r, num_nodes) ==
  \E i \in 1 .. Len(TreeArrays) : SizeDiffers(num_nodes, r[TreeArrays[i]])

VisitLeaf_UsesBaseWeights(r, tree, old_id, new_id) ==
  Tree_SetSumHess(Tree_SetLeaf(tree, new_id, r.base_weights[old_id + 1]),
                  new_id, r.sum_hessian[old_id + 1])

VisitLeaf_NoValue(r, tree, old_id, new_id) ==
  Tree_SetSumHess(Tree_SetLeaf(tree, new_id, 0), new_id, r.sum_hessian[old_id + 1])

\* the body of the loop for a node without a left child
VisitLeaf(r, tree, old_id, new_id) ==
  Tree_SetSumHess(Tree_SetLeaf(tree, new_id, r.split_conditions[old_id + 1]),
                  new_id, r.sum_hessian[old_id + 1])

VisitSplit_PushesLeftTwice(r, tree, old_id, new_id) ==
  LET t1 == Tree_AddChilds(tree, new_id)
      t2 == Tree_SetNumericalSplit(t1, new_id, r.split_indices[old_id + 1],
                                   r.split_conditions[old_id + 1],
                                   r.default_left[old_id + 1], "kLT")
      t3 == Tree_SetGain(t2, new_id, r.loss_changes[old_id + 1])
  IN [tree |-> Tree_SetSumHess(t3, new_id, r.sum_hessian[old_id + 1]),
      pushed |-> <<<<r.left_children[old_id + 1], Tree_LeftChild(t3, new_id)>>,
                   <<r.left_children[old_id + 1], Tree_RightChild(t3, new_id)>>>>]

VisitSplit_SwapsChildren(r, tree, old_id, new_id) ==
  LET t1 == Tree_AddChilds(tree, new_id)
      t2 == Tree_SetNumericalSplit(t1, new_id, r.split_indices[old_id + 1],
                                   r.split_conditions[old_id + 1],
                                   r.default_left[old_id + 1], "kLT")
      t3 == Tree_SetGain(t2, new_id, r.loss_changes[old_id + 1])
  IN [tree |-> Tree_SetSumHess(t3, new_id, r.sum_hessian[old_id + 1]),
      pushed |-> <<<<r.right_children[old_id + 1], Tree_LeftChild(t3, new_id)>>,
                   <<r.left_children[old_id + 1], Tree_RightChild(t3, new_id)>>>>]

\* the body of the loop for a node with a left child: the tree it leaves and
\* the (old ID, new ID) pairs it pushes
VisitSplit(r, tree, old_id, new_id) ==
  LET t1 == Tree_AddChilds(tree, new_id)
      t2 == Tree_SetNumericalSplit(t1, new_id, r.split_indices[old_id + 1],
                                   r.split_conditions[old_id + 1],
                                   r.default_left[old_id + 1], "kLT")
      t3 == Tree_SetGain(t2, new_id, r.loss_changes[old_id + 1])
  IN [tree |-> Tree_SetSumHess(t3, new_id, r.sum_hessian[old_id + 1]),
      pushed |-> <<<<r.left_children[old_id + 1], Tree_LeftChild(t3, new_id)>>,
                   <<r.right_children[old_id + 1], Tree_RightChild(t3, new_id)>>>>]

\* iterations after which the loop is taken not to end
BfsFuel == 2 ^ (MaxNodes + 2)

\* The while loop over the queue Q.  It ends "done" with the queue empty,
\* "undefined" when an old ID is no index of the vectors (operator[] out of
\* range), "diverged" when the fuel runs out.  visited lists the pairs taken
\* from the queue, in order.
RECURSIVE Reconstruct(_, _, _, _, _)
Reconstruct(r, tree, Q, visited, fuel) ==
  IF Q = <<>> THEN [end |-> "done", tree |-> tree, visited |-> visited]
  ELSE IF fuel = 0 THEN [end |-> "diverged", tree |-> tree, visited |-> visited]
  ELSE LET old_id == Head(Q)[1]
           new_id == Head(Q)[2]
       IN IF old_id < 0 \/ old_id >= Len(r.left_children)
          THEN [end |-> "undefined", tree |-> tree, visited |-> visited]
          ELSE IF r.left_children[old_id + 1] = -1
          THEN Reconstruct(r, VisitLeaf(r, tree, old_id, new_id), Tail(Q),
                           Append(visited, Head(Q)), fuel - 1)
          ELSE LET v == VisitSplit(r, tree, old_id, new_id)
               IN Reconstruct(r, v.tree, Tail(Q) \o v.pushed,
                              Append(visited, Head(Q)), fuel - 1)

\* output: the tree this handler fills, the last of the model's tree vector
SetOutputTree(S, tree) == [S EXCEPT !.result.trees[Len(S.result.trees)] = tree]

\* the values a read of num_nodes may give
NumNodesRead(r) == IF r.num_nodes_written THEN {r.num_nodes} ELSE GarbageInts

RegTreeHandler_EndObject(S) ==
  UNION {
    LET S1 == SetOutputTree([S EXCEPT !.rt.num_nodes = n, !.rt.num_nodes_written = TRUE],
                            Tree_Init)
    IN IF LengthMismatch(S1.rt, n) THEN Reject(S1)
       ELSE LET rec == Reconstruct(S1.rt, Tree_Init, <<<<0, 0>>>>, <<>>, BfsFuel)
                S2 == SetOutputTree([S1 EXCEPT !.rt.visited = rec.visited], rec.tree)
            IN IF rec.end = "done" THEN BaseHandler_pop_handler(S2)
               ELSE {[how |-> rec.end, st |-> S2]}
    : n \in NumNodesRead(S.rt)}

(***************************************************************************)
(* GBTreeModelHandler, GradientBoosterHandler, ObjectiveHandler            *)
(***************************************************************************)
GBTreeModelHandler_StartArray_IgnoresTrees(S) ==
  BaseHandler_push_key_handler(S,
    <<<<"trees", "IgnoreHandler", "">>, <<"tree_info", "IgnoreHandler", "">>>>)

GBTreeModelHandler_StartArray(S) ==
  BaseHandler_push_key_handler(S,
    <<<<"trees", "ArrayHandler", "trees">>, <<"tree_info", "IgnoreHandler", "">>>>)

GBTreeModelHandler_StartObject(S) ==
  BaseHandler_push_key_handler(S, <<<<"gbtree_model_param", "IgnoreHandler", "">>>>)

gbtree == <<"g", "b", "t", "r", "e", "e">>
gblinear == <<"g", "b", "l", "i", "n", "e", "a", "r">>
dart == <<"d", "a", "r", "t">>

GradientBoosterHandler_String_AnyName(S, str) ==
  IF ~BaseHandler_check_cur_key(S, "name") THEN Reject(S) ELSE Accept(S)

GradientBoosterHandler_String(S, str) ==
  IF ~BaseHandler_check_cur_key(S, "name") THEN Reject(S)
  ELSE IF str # gbtree THEN Reject(S)
  ELSE Accept(S)

GradientBoosterHandler_StartObject(S) ==
  BaseHandler_push_key_handler(S, <<<<"model", "GBTreeModelHandler", "model">>>>)

ObjectiveHandler_StartObject(S) ==
  BaseHandler_push_key_handler(S,
    <<<<"reg_loss_param", "IgnoreHandler", "">>,
      <<"poisson_regression_param", "IgnoreHandler", "">>,
      <<"tweedie_regression_param", "IgnoreHandler", "">>,
      <<"softmax_multiclass_param", "IgnoreHandler", "">>,
      <<"lambda_rank_param", "IgnoreHandler", "">>,
      <<"aft_loss_param", "IgnoreHandler", "">>>>)

ObjectiveHandler_String(S, str) ==
  IF BaseHandler_check_cur_key(S, "name") THEN Accept([S EXCEPT !.objective = str])
  ELSE Reject(S)

(***************************************************************************)
(* LearnerParamHandler, LearnerHandler                                     *)
(***************************************************************************)
Max(a, b) == IF a >= b THEN a ELSE b

LearnerParamHandler_String_NoClamp(S, str) ==
  IF BaseHandler_check_cur_key(S, "base_score")
  THEN Accept([S EXCEPT !.result.global_bias = [v |-> strtof(str), via |-> <<>>]])
  ELSE IF BaseHandler_check_cur_key(S, "num_class")
  THEN Accept([S EXCEPT !.result.num_output_group = atoi(str)])
  ELSE IF BaseHandler_check_cur_key(S, "num_feature")
  THEN Accept([S EXCEPT !.result.num_feature = atoi(str)])
  ELSE Reject(S)

LearnerParamHandler_String(S, str) ==
  IF BaseHandler_check_cur_key(S, "base_score")
  THEN Accept([S EXCEPT !.result.global_bias = [v |-> strtof(str), via |-> <<>>]])
  ELSE IF BaseHandler_check_cur_key(S, "num_class")
  THEN Accept([S EXCEPT !.result.num_output_group = Max(atoi(str), 1)])
  ELSE IF BaseHandler_check_cur_key(S, "num_feature")
  THEN Accept([S EXCEPT !.result.num_feature = atoi(str)])
  ELSE Reject(S)

LearnerHandler_StartObject_AnyKey(S) ==
  LET r == BaseHandler_push_key_handler(S,
             <<<<"learner_model_param", "LearnerParamHandler", "model">>,
               <<"gradient_booster", "GradientBoosterHandler", "model">>,
               <<"objective", "ObjectiveHandler", "objective">>,
               <<"attributes", "IgnoreHandler", "">>>>)
  IN IF \E o \in r : o.how = "true" THEN r
     ELSE Accept(BaseHandler_push_handler(S, "IgnoreHandler", ""))

LearnerHandler_StartObject(S) ==
  BaseHandler_push_key_handler(S,
    <<<<"learner_model_param", "LearnerParamHandler", "model">>,
      <<"gradient_booster", "GradientBoosterHandler", "model">>,
      <<"objective", "ObjectiveHandler", "objective">>,
      <<"attributes", "IgnoreHandler", "">>>>)

binary_logistic == <<"b", "i", "n", "a", "r", "y", ":", "l", "o", "g", "i", "s", "t", "i", "c">>
count_poisson == <<"c", "o", "u", "n", "t", ":", "p", "o", "i", "s", "s", "o", "n">>
reg_squarederror ==
  <<"r", "e", "g", ":", "s", "q", "u", "a", "r", "e", "d", "e", "r", "r", "o", "r">>

\* xgboost::SetPredTransform: the prediction transform of an objective name
SetPredTransform(objective_name) ==
  CASE objective_name = binary_logistic -> "sigmoid"
    [] objective_name = count_poisson -> "exponential"
    [] OTHER -> "identity"

LearnerHandler_EndObject(S) ==
  BaseHandler_pop_handler([S EXCEPT !.result.pred_transform = SetPredTransform(S.objective)])

(***************************************************************************)
(* XGBoostModelHandler, RootHandler                                        *)
(***************************************************************************)
XGBoostModelHandler_StartArray(S) ==
  BaseHandler_push_key_handler(S, <<<<"version", "ArrayHandler", "version">>>>)

XGBoostModelHandler_StartObject(S) ==
  BaseHandler_push_key_handler(S, <<<<"learner", "LearnerHandler", "model">>>>)

\* xgboost::TransformGlobalBiasToMargin: the bias becomes its margin under the
\* model's prediction transform; bias_transforms counts the calls
TransformGlobalBiasToMargin(model) ==
  LET m == [model EXCEPT !.bias_transforms = @ + 1]
  IN CASE model.pred_transform = "sigmoid" ->
            [m EXCEPT !.global_bias.via = Append(@, "logit")]
       [] model.pred_transform = "exponential" ->
            [m EXCEPT !.global_bias.via = Append(@, "log")]
       [] OTHER -> m

need_transform_to_margin_Always(version) == TRUE

need_transform_to_margin(version) == version[1] >= 1

MemberCountOk(memberCount) == memberCount = 2

\* the model after the version-dependent finalization
Finalize(S, transform) ==
  IF transform THEN [S EXCEPT !.result = TransformGlobalBiasToMargin(@)] ELSE S

XGBoostModelHandler_EndObject(S, memberCount) ==
  IF ~MemberCountOk(memberCount) THEN Reject(S)
  ELSE LET S1 == [S EXCEPT !.result.random_forest_flag = "false"]
       IN IF S1.version = <<>>
          \* version[0] of an empty vector: any value may be read, or none
          THEN Crash(S1) \cup UNION {BaseHandler_pop_handler(Finalize(S1, b)) : b \in BOOLEAN}
          ELSE BaseHandler_pop_handler(Finalize(S1, need_transform_to_margin(S1.version)))

RootHandler_StartObject_Replaces(S) ==
  Accept([Construct(S, "XGBoostModelHandler") EXCEPT
            !.delegates = <<Frame("XGBoostModelHandler", "model")>>])

RootHandler_StartObject(S) ==
  Accept(BaseHandler_push_handler(S, "XGBoostModelHandler", "model"))

(***************************************************************************)
(* DelegatedHandler: every callback forwards to delegates.top(), a virtual *)
(* call resolved by the class of the handler found there.  top() of an     *)
(* empty stack is undefined.                                               *)
(***************************************************************************)
Undefined(S) == {[how |-> "undefined", st |-> S]}

\* Null, Int64, Uint64 and (outside ArrayHandler, TreeParamHandler, ...) every
\* primitive no class overrides
Virtual_Primitive(S) ==
  IF Top(S).h = "IgnoreHandler" THEN IgnoreHandler_Primitive(S)
  ELSE BaseHandler_Primitive(S)

DelegatedHandler_Null(S) ==
  IF S.delegates = <<>> THEN Undefined(S) ELSE Virtual_Primitive(S)

DelegatedHandler_Bool(S, b) ==
  IF S.delegates = <<>> THEN Undefined(S)
  ELSE IF Top(S).h = "ArrayHandler" THEN ArrayHandler_Bool(S, b)
  ELSE Virtual_Primitive(S)

DelegatedHandler_Int(S, i) ==
  IF S.delegates = <<>> THEN Undefined(S)
  ELSE IF Top(S).h = "ArrayHandler" THEN ArrayHandler_Int(S, i)
  ELSE Virtual_Primitive(S)

DelegatedHandler_Uint(S, u) ==
  IF S.delegates = <<>> THEN Undefined(S)
  ELSE IF Top(S).h = "ArrayHandler" THEN ArrayHandler_Uint(S, u)
  ELSE IF Top(S).h = "RegTreeHandler" THEN RegTreeHandler_Uint(S)
  ELSE Virtual_Primitive(S)

DelegatedHandler_Int64(S) ==
  IF S.delegates = <<>> THEN Undefined(S) ELSE Virtual_Primitive(S)

DelegatedHandler_Uint64(S) ==
  IF S.delegates = <<>> THEN Undefined(S) ELSE Virtual_Primitive(S)

DelegatedHandler_Double(S, d) ==
  IF S.delegates = <<>> THEN Undefined(S)
  ELSE IF Top(S).h = "ArrayHandler" THEN ArrayHandler_Double(S, d)
  ELSE Virtual_Primitive(S)

DelegatedHandler_String(S, str) ==
  IF S.delegates = <<>> THEN Undefined(S)
  ELSE LET h == Top(S).h
       IN CASE h = "TreeParamHandler" -> TreeParamHandler_String(S, str)
            [] h = "GradientBoosterHandler" -> GradientBoosterHandler_String(S, str)
            [] h = "ObjectiveHandler" -> ObjectiveHandler_String(S, str)
            [] h = "LearnerParamHandler" -> LearnerParamHandler_String(S, str)
            [] OTHER -> Virtual_Primitive(S)

DelegatedHandler_StartObject(S) ==
  IF S.delegates = <<>> THEN Undefined(S)
  ELSE LET h == Top(S).h
       IN CASE h = "IgnoreHandler" -> IgnoreHandler_StartObject(S)
            [] h = "ArrayHandler" -> ArrayHandler_StartObject(S)
            [] h = "RegTreeHandler" -> RegTreeHandler_StartObject(S)
            [] h = "GBTreeModelHandler" -> GBTreeModelHandler_StartObject(S)
            [] h = "GradientBoosterHandler" -> GradientBoosterHandler_StartObject(S)
            [] h = "ObjectiveHandler" -> ObjectiveHandler_StartObject(S)
            [] h = "LearnerHandler" -> LearnerHandler_StartObject(S)
            [] h = "XGBoostModelHandler" -> XGBoostModelHandler_StartObject(S)
            [] h = "RootHandler" -> RootHandler_StartObject(S)
            [] OTHER -> BaseHandler_StartObject(S)

DelegatedHandler_Key(S, k) ==
  IF S.delegates = <<>> THEN Undefined(S)
  ELSE IF Top(S).h = "IgnoreHandler" THEN IgnoreHandler_Key(S)
  ELSE BaseHandler_Key(S, k)

DelegatedHandler_EndObject(S, memberCount) ==
  IF S.delegates = <<>> THEN Undefined(S)
  ELSE LET h == Top(S).h
       IN CASE h = "RegTreeHandler" -> RegTreeHandler_EndObject(S)
            [] h = "LearnerHandler" -> LearnerHandler_EndObject(S)
            [] h = "XGBoostModelHandler" -> XGBoostModelHandler_EndObject(S, memberCount)
            [] OTHER -> BaseHandler_EndObject(S)

DelegatedHandler_StartArray(S) ==
  IF S.delegates = <<>> THEN Undefined(S)
  ELSE LET h == Top(S).h
       IN CASE h = "IgnoreHandler" -> IgnoreHandler_StartArray(S)
            [] h = "RegTreeHandler" -> RegTreeHandler_StartArray(S)
            [] h = "GBTreeModelHandler" -> GBTreeModelHandler_StartArray(S)
            [] h = "XGBoostModelHandler" -> XGBoostModelHandler_StartArray(S)
            [] OTHER -> BaseHandler_StartArray(S)

DelegatedHandler_EndArray(S) ==
  IF S.delegates = <<>> THEN Undefined(S) ELSE BaseHandler_EndArray(S)

\* DelegatedHandler::create(): the dispatcher starts with a RootHandler on its
\* stack, writing to the model it owns
DelegatedHandler_create ==
  [delegates |-> <<Frame("RootHandler", "result")>>, result |-> NewModel,
   version |-> <<>>, objective |-> <<>>, rt |-> NewRegTree]

(***************************************************************************)
(* The input documents.  Each family varies one level of the schema        *)
(* inside an otherwise regular document.                                   *)
(***************************************************************************)
DigitChars == <<"0", "1", "2", "3", "4", "5", "6", "7", "8", "9">>

RECURSIVE NumChars(_)
\* the decimal text of an integer
NumChars(n) ==
  IF n < 0 THEN <<"-">> \o NumChars(0 - n)
  ELSE IF n < 10 THEN <<DigitChars[n + 1]>>
  ELSE NumChars(n \div 10) \o <<DigitChars[(n % 10) + 1]>>

\* a JSON integer: rapidjson reports negative numbers by Int, others by Uint
JInt(x) == IF x < 0 THEN <<EvInt(x)>> ELSE <<EvUint(x)>>

\* element i (0-based) of tree array a; the children come from the shape
ArrayElement(a, i, left, right) ==
  CASE a = "loss_changes" -> <<EvDouble(10 + i)>>
    [] a = "sum_hessian" -> <<EvDouble(20 + i)>>
    [] a = "base_weights" -> <<EvDouble(30 + i)>>
    [] a = "split_conditions" -> <<EvDouble(40 + i)>>
    [] a = "leaf_child_counts" -> JInt(0)
    [] a = "parents" -> JInt(i - 1)
    [] a = "split_indices" -> JInt(i + 1)
    [] a = "default_left" -> <<EvBool(i % 2 = 0)>>
    [] a = "left_children" -> JInt(IF i < Len(left) THEN left[i + 1] ELSE -1)
    [] a = "right_children" -> JInt(IF i < Len(right) THEN right[i + 1] ELSE -1)

ArrayValue(a, len, left, right) ==
  JArr([i \in 1 .. len |-> ArrayElement(a, i - 1, left, right)])

\* the order in which a tree object lists its arrays
TreeMemberOrder ==
  <<"base_weights", "default_left", "left_children", "loss_changes", "parents",
    "right_children", "split_conditions", "split_indices", "sum_hessian",
    "leaf_child_counts">>

TreeParamValue(n) ==
  JObj(<<JMem("num_feature", JStr(<<"4">>)), JMem("num_nodes", JStr(NumChars(n))),
         JMem("size_leaf_vector", JStr(<<"0">>))>>)

\* A tree object: param is the tree_param value (or <<>> for none) and where it
\* stands, lens the length of each array, left and right the shape.
TreeValue(param, paramFirst, lens, left, right) ==
  LET arrays == [i \in 1 .. Len(TreeMemberOrder) |->
                   JMem(TreeMemberOrder[i],
                        ArrayValue(TreeMemberOrder[i], lens[TreeMemberOrder[i]], left, right))]
      extra == <<JMem("id", JInt(0)), JMem("categories", JArr(<<>>))>>
      tp == IF param = <<>> THEN <<>> ELSE <<JMem("tree_param", param)>>
  IN JObj(IF paramFirst THEN tp \o arrays \o extra ELSE arrays \o extra \o tp)

AllLens(n) == [a \in {TreeArrays[i] : i \in 1 .. Len(TreeArrays)} |-> n]

\* shapes over n nodes whose child entries are -1 or a later node
Shapes(n) ==
  LET Kids == {f \in [1 .. n -> -1 .. n - 1] : \A i \in 1 .. n : f[i] = -1 \/ f[i] >= i}
  IN Kids \X Kids

\* the regular shape on n nodes: node i has the children 2i+1 and 2i+2 when
\* both exist
RegularKids(n, side) ==
  [i \in 1 .. n |-> IF 2 * (i - 1) + 2 < n THEN 2 * (i - 1) + side ELSE -1]

RegularTree(n) ==
  TreeValue(TreeParamValue(n), TRUE, AllLens(n), RegularKids(n, 1), RegularKids(n, 2))

GoodVersion == JArr(<<JInt(1), JInt(0), JInt(0)>>)
GoodLearnerParam ==
  JObj(<<JMem("base_score", JStr(<<"0", ".", "5">>)), JMem("num_class", JStr(<<"0">>)),
         JMem("num_feature", JStr(<<"4">>))>>)
GoodObjective ==
  JObj(<<JMem("name", JStr(binary_logistic)),
         JMem("reg_loss_param", JObj(<<JMem("scale_pos_weight", JStr(<<"1">>))>>))>>)

WrapLearner(l) == JObj(<<JMem("learner", l), JMem("version", GoodVersion)>>)
WrapBooster(b) ==
  WrapLearner(JObj(<<JMem("attributes", JObj(<<>>)), JMem("gradient_booster", b),
                     JMem("learner_model_param", GoodLearnerParam),
                     JMem("objective", GoodObjective)>>))
WrapModel(m) == WrapBooster(JObj(<<JMem("model", m), JMem("name", JStr(gbtree))>>))
WrapTrees(trees) ==
  WrapModel(JObj(<<JMem("gbtree_model_param", JObj(<<JMem("num_trees", JStr(<<"1">>))>>)),
                   JMem("tree_info", JArr(<<JInt(0)>>)), JMem("trees", JArr(trees))>>))

\* every shape on up to MaxNodes nodes, all arrays of the declared length
ShapeDocs ==
  UNION {{WrapTrees(<<TreeValue(TreeParamValue(n), TRUE, AllLens(n), sh[1], sh[2])>>) :
            sh \in Shapes(n)} : n \in 0 .. MaxNodes}

\* the regular tree on n nodes with array a of length len, tree_param first or last
LengthDocs ==
  {WrapTrees(<<TreeValue(TreeParamValue(n), first, [AllLens(n) EXCEPT ![a] = n + delta],
                         RegularKids(n, 1), RegularKids(n, 2))>>) :
     n \in 1 .. MaxNodes, a \in {TreeArrays[i] : i \in 1 .. Len(TreeArrays)},
     delta \in {-1, 1}, first \in BOOLEAN}
  \cup
  {WrapTrees(<<TreeValue(TreeParamValue(n), TRUE, AllLens(m),
                         RegularKids(m, 1), RegularKids(m, 2))>>) :
     n \in 0 .. MaxNodes, m \in 0 .. MaxNodes}

\* the members a tree_param object is made of
ParamMenu ==
  {JMem("num_nodes", JStr(<<"1">>)), JMem("num_nodes", JStr(<<"2">>)),
   JMem("num_nodes", JStr(<<" ", "1", "x">>)), JMem("num_nodes", JStr(<<"-", "1">>)),
   JMem("num_nodes", JInt(1)), JMem("num_feature", JStr(<<"7">>)),
   JMem("size_leaf_vector", JStr(<<"0">>)), JMem("num_deleted", JStr(<<"0">>)),
   JMem("num_roots", JStr(<<"1">>)), JMem("num_nodes", JObj(<<>>))}

\* a one-node tree under every tree_param of up to MaxParamMembers members,
\* and trees without tree_param
ParamDocs ==
  {WrapTrees(<<TreeValue(JObj(ms), TRUE, AllLens(1), <<-1>>, <<-1>>)>>) :
     ms \in SeqsUpTo(ParamMenu, MaxParamMembers)}
  \cup
  {WrapTrees(<<TreeValue(<<>>, TRUE, AllLens(m), RegularKids(m, 1), RegularKids(m, 2))>>) :
     m \in 0 .. 1}

\* a one-node tree with a short array
ShortTree ==
  TreeValue(TreeParamValue(1), TRUE, [AllLens(1) EXCEPT !["default_left"] = 0],
            <<-1>>, <<-1>>)

TreesDocs ==
  {WrapTrees(ts) :
     ts \in SeqsUpTo({RegularTree(1), RegularTree(MaxNodes), ShortTree, JInt(7)}, MaxTrees)}

ModelDocs ==
  {WrapModel(JObj(ms)) :
     ms \in SeqsUpTo({JMem("gbtree_model_param", JObj(<<>>)),
                      JMem("trees", JArr(<<RegularTree(1)>>)),
                      JMem("tree_info", JArr(<<JInt(0)>>)),
                      JMem("trees", JObj(<<>>)),
                      JMem("extra", JArr(<<>>)),
                      JMem("gbtree_model_param", JStr(<<"1">>))}, MaxBoosterMembers)}

SmallModel == JObj(<<JMem("trees", JArr(<<RegularTree(1)>>))>>)

BoosterDocs ==
  {WrapBooster(JObj(ms)) :
     ms \in SeqsUpTo({JMem("name", JStr(gbtree)), JMem("name", JStr(gblinear)),
                      JMem("name", JStr(dart)), JMem("model", SmallModel),
                      JMem("name", JInt(1)), JMem("kind", JStr(gbtree)),
                      JMem("weights", JObj(<<>>))}, MaxBoosterMembers)}

SmallBooster ==
  JObj(<<JMem("name", JStr(gbtree)), JMem("model", JObj(<<JMem("trees", JArr(<<>>))>>))>>)

\* the members an objective object is made of
ObjectiveMenu ==
  {JMem("name", JStr(binary_logistic)), JMem("name", JStr(count_poisson)),
   JMem("name", JStr(reg_squarederror)),
   JMem("reg_loss_param", JObj(<<JMem("scale_pos_weight", JStr(<<"1">>))>>)),
   JMem("extra_param", JObj(<<>>)), JMem("kind", JStr(binary_logistic))}

ObjectiveDocs ==
  {WrapLearner(JObj(<<JMem("objective", JObj(ms))>>)) :
     ms \in SeqsUpTo(ObjectiveMenu, MaxParamMembers)}

\* the members a learner_model_param object is made of
LearnerParamMenu ==
  {JMem("base_score", JStr(<<"2", ".", "5">>)), JMem("base_score", <<EvDouble(2)>>),
   JMem("num_class", JStr(<<"3">>)), JMem("num_class", JStr(<<"0">>)),
   JMem("num_class", JStr(<<"-", "2">>)), JMem("num_feature", JStr(<<"1", "2">>)),
   JMem("num_target", JStr(<<"1">>))}

LearnerParamDocs ==
  {WrapLearner(JObj(<<JMem("learner_model_param", JObj(ms))>>)) :
     ms \in SeqsUpTo(LearnerParamMenu, MaxParamMembers)}

LearnerMenu ==
  {JMem("learner_model_param", GoodLearnerParam), JMem("gradient_booster", SmallBooster),
   JMem("objective", GoodObjective),
   JMem("attributes", JObj(<<JMem("best_iteration", JStr(<<"9">>))>>)),
   JMem("attributes", JArr(<<>>)), JMem("objective", JStr(binary_logistic)),
   JMem("feature_names", JObj(<<>>)), JMem("feature_names", JArr(<<>>)),
   JMem("feature_names", <<EvNull>>), JMem("feature_names", JStr(<<"1">>)),
   JMem("feature_names", <<EvBool(TRUE)>>), JMem("feature_names", JInt(1)),
   JMem("feature_names", <<EvDouble(1)>>)}

LearnerDocs == {WrapLearner(JObj(ms)) : ms \in SeqsUpTo(LearnerMenu, MaxLearnerMembers)}

SmallLearner ==
  JObj(<<JMem("learner_model_param", JObj(<<JMem("base_score", JStr(<<"0", ".", "5">>))>>)),
         JMem("objective", JObj(<<JMem("name", JStr(binary_logistic))>>))>>)

TopMenu ==
  {JMem("version", JArr(<<JInt(2)>>)), JMem("version", JArr(<<JInt(0), JInt(90), JInt(0)>>)),
   JMem("version", GoodVersion), JMem("version", JArr(<<JInt(-1)>>)),
   JMem("learner", SmallLearner), JMem("learner", JArr(<<>>)),
   JMem("Config", JObj(<<>>))}

TopDocs == {JObj(ms) : ms \in SeqsUpTo(TopMenu, MaxTopMembers)}

\* two top-level members that leave the version vector empty
EmptyVersionDocs ==
  {JObj(<<JMem("version", JArr(<<>>)), JMem("learner", SmallLearner)>>),
   JObj(<<JMem("learner", SmallLearner), JMem("version", JArr(<<>>))>>),
   JObj(<<JMem("learner", SmallLearner), JMem("learner", SmallLearner)>>)}

\* JSON values nested to depth d
RECURSIVE Values(_)
Values(d) ==
  LET prims == {<<EvNull>>, <<EvBool(FALSE)>>, JInt(-3), JInt(3), <<EvInt64(1)>>,
                <<EvUint64(1)>>, <<EvDouble(1)>>, JStr(<<"a">>)}
  IN IF d = 0 THEN prims
     ELSE LET inner == Values(d - 1)
          IN prims \cup {JArr(<<>>), JObj(<<>>)}
               \cup {JArr(<<v>>) : v \in inner}
               \cup {JObj(<<JMem("name", v)>>) : v \in inner}
               \cup {JObj(<<JMem("a", v), JMem("num_nodes", JStr(<<"9">>))>>) : v \in inner}

\* an ignored member of every shape, in the learner, the model and a tree
IgnoreDocs ==
  UNION {{WrapLearner(JObj(<<JMem("attributes", v),
                             JMem("learner_model_param", GoodLearnerParam)>>)),
          WrapModel(JObj(<<JMem("tree_info", v), JMem("gbtree_model_param", v)>>)),
          WrapTrees(<<JObj(<<JMem("split_type", v), JMem("categories", v)>>)>>)} :
           v \in Values(MaxIgnoreDepth)}

\* a regular document, whole and cut short at every place, and roots that are
\* no object
RegularDoc == WrapTrees(<<RegularTree(1)>>)

\* the shortest document that has both top-level members
MinimalDoc == JObj(<<JMem("version", JArr(<<JInt(1)>>)), JMem("learner", JObj(<<>>))>>)

RootDocs ==
  {SubSeq(RegularDoc, 1, k) \o <<EvSyntaxError>> : k \in 0 .. Len(RegularDoc)}
  \cup {RegularDoc, MinimalDoc, <<EvSyntaxError>>, JArr(<<>>), JInt(1), JStr(gbtree),
        <<EvNull>>}

\* child arrays in which a node names itself or an ancestor as its child
CyclicShapes ==
  {<<<<0>>, <<0>>>>, <<<<0>>, <<-1>>>>, <<<<1, 0>>, <<1, 0>>>>,
   <<<<1, -1, 0>>, <<2, -1, 1>>>>}

CycleDocs ==
  {WrapTrees(<<TreeValue(TreeParamValue(Len(sh[1])), TRUE, AllLens(Len(sh[1])),
                         sh[1], sh[2])>>) : sh \in CyclicShapes}

\* child arrays with entries that are no node of the tree
OutOfRangeShapes == {<<<<1>>, <<2>>>>, <<<<1, 5>>, <<1, -1>>>>}

RangeDocs ==
  {WrapTrees(<<TreeValue(TreeParamValue(Len(sh[1])), TRUE, AllLens(Len(sh[1])),
                         sh[1], sh[2])>>) : sh \in OutOfRangeShapes}

Docs ==
  CycleDocs \cup RangeDocs \cup ShapeDocs \cup LengthDocs \cup ParamDocs \cup TreesDocs \cup ModelDocs
    \cup BoosterDocs \cup ObjectiveDocs \cup LearnerParamDocs \cup LearnerDocs
    \cup TopDocs \cup EmptyVersionDocs \cup IgnoreDocs \cup RootDocs

(***************************************************************************)
(* ParseStream                                                             *)
(***************************************************************************)
VARIABLES
  doc,        \* the events the tokenizer produces for the input stream
  pos,        \* the next event of doc
  status,     \* where ParseStream stands: "parsing", "failed" (a callback returned
              \* false or the text is malformed), "fatal", "done", or the process
              \* has ended by "crash", "undefined" behaviour or "diverged"
  delegates,  \* DelegatedHandler::delegates, top last
  result,     \* DelegatedHandler::result, the model under construction
  version,    \* XGBoostModelHandler::version
  objective,  \* LearnerHandler::objective
  rt,         \* the members of the RegTreeHandler constructed last
  returned,   \* <<m>> once get_result() has handed m to the caller, else <<>>
  run,        \* which load of doc this is
  first,      \* <<outcome of the first load>> once a second one has begun
  depth_max   \* the largest size delegates has had in this load

handlers == <<delegates, result, version, objective, rt>>
vars ==
  <<doc, pos, status, delegates, result, version, objective, rt, returned, run, first,
    depth_max>>

Cur ==
  [delegates |-> delegates, result |-> result, version |-> version,
   objective |-> objective, rt |-> rt]

Init ==
  /\ doc \in Docs
  /\ pos = 1
  /\ status = "parsing"
  /\ delegates = DelegatedHandler_create.delegates
  /\ result = DelegatedHandler_create.result
  /\ version = DelegatedHandler_create.version
  /\ objective = DelegatedHandler_create.objective
  /\ rt = DelegatedHandler_create.rt
  /\ returned = <<>>
  /\ run = 1
  /\ first = <<>>
  /\ depth_max = Len(DelegatedHandler_create.delegates)

ReaderContinues_AfterFailure(st) == st \in {"parsing", "failed"}

\* reader.Parse hands the next event to the handler only while every callback
\* so far has returned true
ReaderContinues(st) == st = "parsing"

Next_event(t) == ReaderContinues(status) /\ pos <= Len(doc) /\ doc[pos].t = t

StatusAfter(how) ==
  CASE how = "true" -> "parsing" [] how = "false" -> "failed" [] OTHER -> how

\* the callback's outcome o becomes the state
Deliver(outs) ==
  \E o \in outs :
    /\ delegates' = o.st.delegates
    /\ result' = o.st.result
    /\ version' = o.st.version
    /\ objective' = o.st.objective
    /\ rt' = o.st.rt
    /\ status' = StatusAfter(o.how)
    /\ pos' = pos + 1
    /\ depth_max' = Max(depth_max, Len(o.st.delegates))
    /\ UNCHANGED <<doc, returned, run, first>>

Reader_Null == Next_event("Null") /\ Deliver(DelegatedHandler_Null(Cur))
Reader_Bool == Next_event("Bool") /\ Deliver(DelegatedHandler_Bool(Cur, doc[pos].n))
Reader_Int == Next_event("Int") /\ Deliver(DelegatedHandler_Int(Cur, doc[pos].n))
Reader_Uint == Next_event("Uint") /\ Deliver(DelegatedHandler_Uint(Cur, doc[pos].n))
Reader_Int64 == Next_event("Int64") /\ Deliver(DelegatedHandler_Int64(Cur))
Reader_Uint64 == Next_event("Uint64") /\ Deliver(DelegatedHandler_Uint64(Cur))
Reader_Double == Next_event("Double") /\ Deliver(DelegatedHandler_Double(Cur, doc[pos].n))
Reader_String == Next_event("String") /\ Deliver(DelegatedHandler_String(Cur, doc[pos].c))
Reader_StartObject == Next_event("StartObject") /\ Deliver(DelegatedHandler_StartObject(Cur))
Reader_Key == Next_event("Key") /\ Deliver(DelegatedHandler_Key(Cur, doc[pos].s))
Reader_EndObject == Next_event("EndObject") /\ Deliver(DelegatedHandler_EndObject(Cur, doc[pos].n))
Reader_StartArray == Next_event("StartArray") /\ Deliver(DelegatedHandler_StartArray(Cur))
Reader_EndArray == Next_event("EndArray") /\ Deliver(DelegatedHandler_EndArray(Cur))

\* the tokenizer finds the text malformed: Parse fails without a callback
Reader_SyntaxError ==
  /\ Next_event("SyntaxError")
  /\ status' = "failed"
  /\ pos' = pos + 1
  /\ UNCHANGED <<doc, delegates, result, version, objective, rt, returned, run, first,
                  depth_max>>

\* result is true: the whole text was read and no callback returned false
ParseSucceeded(st, p, d) == st = "parsing" /\ p > Len(d)

\* return handler->get_result()
ParseStream_return ==
  /\ ParseSucceeded(status, pos, doc)
  /\ returned' = <<result>>
  /\ status' = "done"
  /\ UNCHANGED <<doc, pos, delegates, result, version, objective, rt, run, first,
                  depth_max>>

\* LOG(FATAL): the load ends without a model
ParseStream_fatal ==
  /\ status = "failed"
  /\ ~ParseSucceeded(status, pos, doc)
  /\ status' = "fatal"
  /\ UNCHANGED <<doc, pos, delegates, result, version, objective, rt, returned, run, first,
                  depth_max>>

Finished == status \in {"done", "fatal", "crash", "undefined", "diverged"}

\* the fields of the model the caller can read
Visible(m) ==
  [global_bias |-> m.global_bias, pred_transform |-> m.pred_transform,
   num_output_group |-> m.num_output_group, num_feature |-> m.num_feature,
   random_forest_flag |-> m.random_forest_flag, trees |-> m.trees]

\* the outcome of a load, as its caller sees it
Outcome ==
  [status |-> status, returned |-> [i \in 1 .. Len(returned) |-> Visible(returned[i])]]

\* the caller loads the same document again, with a fresh dispatcher
Reload ==
  /\ Finished
  /\ run = 1
  /\ run' = 2
  /\ first' = <<Outcome>>
  /\ pos' = 1
  /\ status' = "parsing"
  /\ returned' = <<>>
  /\ delegates' = DelegatedHandler_create.delegates
  /\ result' = DelegatedHandler_create.result
  /\ version' = DelegatedHandler_create.version
  /\ objective' = DelegatedHandler_create.objective
  /\ rt' = DelegatedHandler_create.rt
  /\ depth_max' = Len(DelegatedHandler_create.delegates)
  /\ UNCHANGED doc

Next ==
  \/ Reader_Null \/ Reader_Bool \/ Reader_Int \/ Reader_Uint \/ Reader_Int64
  \/ Reader_Uint64 \/ Reader_Double \/ Reader_String \/ Reader_StartObject
  \/ Reader_Key \/ Reader_EndObject \/ Reader_StartArray \/ Reader_EndArray
  \/ Reader_SyntaxError \/ ParseStream_return \/ ParseStream_fatal

Spec == Init /\ [][Next]_vars

NextTwice == Next \/ Reload

SpecTwice == Init /\ [][NextTwice]_vars

(***************************************************************************)
(* Properties                                                              *)
(***************************************************************************)
TopHandler == delegates[Len(delegates)]

\* the next step hands an event of kind t to a handler of class h
Dispatching(t, h) ==
  /\ status = "parsing" /\ pos <= Len(doc) /\ doc[pos].t = t
  /\ delegates # <<>> /\ TopHandler.h = h

\* the event handed over last
LastEvent == doc[pos - 1]

LastTree == result.trees[Len(result.trees)]

ArrayNames == {TreeArrays[i] : i \in 1 .. Len(TreeArrays)}

Failed == status \in {"failed", "fatal"}

\* a load that has failed stays failed and returns nothing
FailureIsFinal == Failed => (status' \in {"failed", "fatal"} /\ returned' = <<>>)

\* C1: when a tree object closes with one of its ten arrays of a length other
\* than num_nodes, EndObject returns false: the load fails, the handler stays,
\* and the output tree is the bare root Init() made, built from no array.
C1_LengthMismatchRejected ==
  [][/\ (Dispatching("EndObject", "RegTreeHandler")
         /\ \E a \in ArrayNames : Len(rt'[a]) # rt'.num_nodes)
        => /\ status' = "failed"
           /\ delegates' = delegates
           /\ result'.trees[Len(result'.trees)] = <<FreshNode>>
           /\ rt'.visited = <<>>
     /\ FailureIsFinal]_vars

\* a tree with exactly one array one element short has been rejected
C1_Witness ==
  /\ status = "fatal" /\ returned = <<>>
  /\ LastEvent.t = "EndObject" /\ TopHandler.h = "RegTreeHandler"
  /\ rt.num_nodes = 3
  /\ Len(rt.split_conditions) = 2
  /\ \A a \in ArrayNames \ {"split_conditions"} : Len(rt[a]) = 3

\* the reconstruction of the tree handled last has run to its end
Reconstructed == rt.visited # <<>> /\ status \notin {"undefined", "diverged"}

\* C2: in a reconstructed tree every visited node without a left child is a
\* leaf with value split_conditions[old_id], statistics sum_hessian[old_id]
\* and no children; a single-node tree gives one node, the root, such a leaf.
C2_LeafNodes ==
  Reconstructed =>
    /\ \A k \in 1 .. Len(rt.visited) :
         LET old_id == rt.visited[k][1]
             node == LastTree[rt.visited[k][2] + 1]
         IN rt.left_children[old_id + 1] = -1 =>
              /\ node.leaf
              /\ node.leaf_value = rt.split_conditions[old_id + 1]
              /\ node.sum_hess = rt.sum_hessian[old_id + 1]
              /\ node.cleft = -1 /\ node.cright = -1
    /\ rt.left_children = <<-1>> =>
         /\ Len(LastTree) = 1
         /\ LastTree[1].leaf
         /\ LastTree[1].leaf_value = rt.split_conditions[1]
         /\ LastTree[1].sum_hess = rt.sum_hessian[1]

C2_Witness ==
  /\ status = "done" /\ rt.left_children = <<-1>> /\ rt.visited = <<<<0, 0>>>>
  /\ Len(returned[1].trees) = 1
  /\ returned[1].trees[1] =
       <<[FreshNode EXCEPT !.leaf_value = 40, !.sum_hess = 20]>>

\* the child entries of the nodes that have a left child
RECURSIVE ChildEntries(_, _)
ChildEntries(r, i) ==
  IF i > Len(r.left_children) THEN <<>>
  ELSE (IF r.left_children[i] = -1 THEN <<>>
        ELSE <<r.left_children[i], r.right_children[i]>>) \o ChildEntries(r, i + 1)

\* left_children and right_children describe a binary tree rooted at old ID 0:
\* a node has two children or none, every child is a later node, and no node
\* is the child of two
WellFormed(r) ==
  LET kids == ChildEntries(r, 1)
  IN /\ Len(r.left_children) >= 1
     /\ \A i \in 1 .. Len(r.left_children) :
          /\ (r.left_children[i] = -1) <=> (r.right_children[i] = -1)
          /\ r.left_children[i] # -1 =>
               /\ r.left_children[i] \in i .. Len(r.left_children) - 1
               /\ r.right_children[i] \in i .. Len(r.left_children) - 1
     /\ \A i, j \in 1 .. Len(kids) : kids[i] = kids[j] => i = j

\* C3: in a reconstructed tree every visited node with a left child is an
\* internal node with two children of its own, allocated after it, carrying
\* split_indices, split_conditions, default_left, "less than", loss_changes
\* and sum_hessian of its old ID; its left child is visited for old node
\* left_children[old_id], its right child for right_children[old_id].  For a
\* well-formed input the output has one node per visited old node.  The
\* three-node tree gives a root with two leaves.
C3_InternalNodes ==
  Reconstructed =>
    /\ \A k \in 1 .. Len(rt.visited) :
         LET old_id == rt.visited[k][1]
             new_id == rt.visited[k][2]
             node == LastTree[new_id + 1]
         IN rt.left_children[old_id + 1] # -1 =>
              /\ ~node.leaf
              /\ node.cleft > new_id /\ node.cright > new_id
              /\ node.cleft # node.cright
              /\ node.cleft < Len(LastTree) /\ node.cright < Len(LastTree)
              /\ \A j \in 1 .. Len(rt.visited) :
                   j # k /\ rt.left_children[rt.visited[j][1] + 1] # -1 =>
                     {LastTree[rt.visited[j][2] + 1].cleft,
                      LastTree[rt.visited[j][2] + 1].cright}
                       \cap {node.cleft, node.cright} = {}
              /\ node.split_index = rt.split_indices[old_id + 1]
              /\ node.threshold = rt.split_conditions[old_id + 1]
              /\ node.default_left = rt.default_left[old_id + 1]
              /\ node.cmp = "kLT"
              /\ node.gain = rt.loss_changes[old_id + 1]
              /\ node.sum_hess = rt.sum_hessian[old_id + 1]
              /\ \E j \in 1 .. Len(rt.visited) :
                   rt.visited[j] = <<rt.left_children[old_id + 1], node.cleft>>
              /\ \E j \in 1 .. Len(rt.visited) :
                   rt.visited[j] = <<rt.right_children[old_id + 1], node.cright>>
    /\ WellFormed(rt) =>
         /\ Len(LastTree) = Len(rt.visited)
         /\ \A j, k \in 1 .. Len(rt.visited) :
              (rt.visited[j][1] = rt.visited[k][1] \/ rt.visited[j][2] = rt.visited[k][2])
                => j = k
    /\ (rt.left_children = <<1, -1, -1>> /\ rt.right_children = <<2, -1, -1>>) =>
         /\ Len(LastTree) = 3
         /\ ~LastTree[1].leaf
         /\ LastTree[LastTree[1].cleft + 1].leaf
         /\ LastTree[LastTree[1].cright + 1].leaf

C3_Witness ==
  /\ status = "done"
  /\ rt.left_children = <<1, -1, -1>> /\ rt.right_children = <<2, -1, -1>>
  /\ LastTree[1] = [leaf |-> FALSE, cleft |-> 1, cright |-> 2, split_index |-> 1,
                    threshold |-> 40, default_left |-> TRUE, cmp |-> "kLT",
                    leaf_value |-> 0, gain |-> 10, sum_hess |-> 20]
  /\ LastTree[2].leaf /\ LastTree[2].leaf_value = 41
  /\ LastTree[3].leaf /\ LastTree[3].leaf_value = 42

\* what a successful load has made of the bias, by the first version number
FinalBias ==
  /\ returned[1].random_forest_flag = "false"
  /\ version # <<>> /\ version[1] >= 1 =>
       /\ returned[1].bias_transforms = 1
       /\ returned[1].global_bias.via =
            (CASE returned[1].pred_transform = "sigmoid" -> <<"logit">>
               [] returned[1].pred_transform = "exponential" -> <<"log">>
               [] OTHER -> <<>>)
  /\ version # <<>> /\ version[1] = 0 =>
       /\ returned[1].bias_transforms = 0
       /\ returned[1].global_bias.via = <<>>

\* C4: a successful load has applied the bias-to-margin transform once when
\* the first version number is >= 1 and never when it is 0, with
\* random_forest_flag false either way; the transform is applied only by the
\* step that closes the top-level model object.
C4_VersionGating ==
  [][/\ result'.bias_transforms # result.bias_transforms
          => Dispatching("EndObject", "XGBoostModelHandler")
     /\ status' = "done" => FinalBias']_vars

C4_Witness ==
  /\ status = "done" /\ version = <<1, 0, 0>>
  /\ returned[1].pred_transform = "sigmoid"
  /\ returned[1].global_bias = [v |-> 5, via |-> <<"logit">>]
  /\ returned[1].bias_transforms = 1

\* C5: a String other than "gbtree" for the key "name" of a gradient-booster
\* object is rejected, wherever "name" stands in the object; no event is
\* handled after it and no model is returned.
C5_BoosterRejected ==
  [][/\ (Dispatching("String", "GradientBoosterHandler")
         /\ TopHandler.cur_key = "name" /\ doc[pos].c # gbtree)
        => status' = "failed" /\ UNCHANGED handlers
     /\ Failed => UNCHANGED <<handlers, pos>>
     /\ FailureIsFinal]_vars

\* "gblinear" has been rejected after the booster's model was read
C5_Witness ==
  /\ status = "fatal" /\ returned = <<>>
  /\ TopHandler.h = "GradientBoosterHandler" /\ TopHandler.cur_key = "name"
  /\ LastEvent.c = gblinear
  /\ Len(result.trees) = 1

\* the keys of the members of the root object of document d
TopKeys(d) ==
  LET Opens(k) == Cardinality({j \in 1 .. k - 1 : d[j].t \in {"StartObject", "StartArray"}})
      Closes(k) == Cardinality({j \in 1 .. k - 1 : d[j].t \in {"EndObject", "EndArray"}})
      at == SelectSeq([k \in 1 .. Len(d) |-> k],
                      LAMBDA k : d[k].t = "Key" /\ Opens(k) - Closes(k) = 1)
  IN [i \in 1 .. Len(at) |-> d[at[i]].s]

\* C6: a load succeeds only if the top-level object has exactly two members,
\* one keyed "version" and one keyed "learner".
C6_VersionAndLearner ==
  status = "done" =>
    TopKeys(doc) \in {<<"version", "learner">>, <<"learner", "version">>}

LearnerKeys == {"learner_model_param", "gradient_booster", "objective", "attributes"}

\* C7: a value that reaches the learner handler under a key other than the
\* four it knows is rejected, of whatever kind; an object under "attributes"
\* is accepted, and neither it nor anything inside it changes the model or a
\* handler's members.
C7_LearnerKeys ==
  [][/\ (status = "parsing" /\ pos <= Len(doc) /\ delegates # <<>>
         /\ TopHandler.h = "LearnerHandler"
         /\ doc[pos].t \notin {"Key", "EndObject"}
         /\ TopHandler.cur_key \notin LearnerKeys)
        => status' = "failed"
     /\ (Dispatching("StartObject", "LearnerHandler") /\ TopHandler.cur_key = "attributes")
        => /\ status' = "parsing"
           /\ delegates' = Append(delegates, Frame("IgnoreHandler", ""))
           /\ UNCHANGED <<result, version, objective, rt>>
     /\ (status = "parsing" /\ delegates # <<>> /\ TopHandler.h = "IgnoreHandler")
        => UNCHANGED <<result, version, objective, rt>>]_vars

\* a number under an unknown key of the learner has been rejected
C7_Witness ==
  /\ status = "failed"
  /\ TopHandler.h = "LearnerHandler" /\ TopHandler.cur_key = "feature_names"
  /\ LastEvent.t = "Double"

TreeParamKeys == {"num_feature", "num_nodes", "size_leaf_vector", "num_deleted"}

\* C8: a String that reaches the tree_param handler is accepted exactly when
\* its key is one of the four known ones; under "num_nodes" it sets num_nodes
\* to the number written and nothing else, under the other three it changes
\* nothing; the model is never touched.
C8_TreeParamKeys ==
  [][Dispatching("String", "TreeParamHandler") =>
       /\ (status' = "parsing") <=> (TopHandler.cur_key \in TreeParamKeys)
       /\ status' \in {"parsing", "failed"}
       /\ UNCHANGED <<result, version, objective, delegates>>
       /\ TopHandler.cur_key = "num_nodes" =>
            /\ rt' = [rt EXCEPT !.num_nodes = rt'.num_nodes, !.num_nodes_written = TRUE]
            /\ \A k \in -1 .. 9 : doc[pos].c = NumChars(k) => rt'.num_nodes = k
       /\ TopHandler.cur_key # "num_nodes" => rt' = rt]_vars

\* "num_deleted" has been accepted after "num_nodes" set the node count to 2
C8_Witness ==
  /\ status = "parsing"
  /\ TopHandler.h = "TreeParamHandler" /\ TopHandler.cur_key = "num_deleted"
  /\ LastEvent.t = "String"
  /\ rt.num_nodes_written /\ rt.num_nodes = 2

\* C9: after a callback has returned false no event reaches a handler, no
\* handler's state changes, and get_result() is not called: a model is
\* returned only by a load in which no callback failed.
C9_FailFast ==
  [][/\ Failed => UNCHANGED <<handlers, pos>>
     /\ FailureIsFinal
     /\ returned' # <<>> => (status # "failed" /\ status' = "done")
     /\ status' = "failed" => (pos' = pos + 1 /\ returned' = <<>>)]_vars

\* a load has ended in failure with a tree in the model that never passed
\* its validation
C9_Witness ==
  /\ status = "fatal" /\ returned = <<>>
  /\ TopHandler.h = "RegTreeHandler"
  /\ Len(result.trees) = 2 /\ LastTree = <<FreshNode>>
  /\ pos <= Len(doc)

\* C10: a second load of the same document ends as the first one did, with
\* the same model if it returns one.
C10_Deterministic ==
  (run = 2 /\ Finished) => Outcome = first[1]

\* C11: a String under "num_class" in the learner parameters is accepted and
\* stores max(n, 1) as the number of output groups, n being the integer the
\* string reads as, and changes nothing else of the model; no other step
\* changes the number of output groups, which is therefore never below 1.
C11_NumClassClamp ==
  [][/\ (Dispatching("String", "LearnerParamHandler") /\ TopHandler.cur_key = "num_class")
        => /\ status' = "parsing"
           /\ \A k \in -9 .. 9 :
                doc[pos].c = NumChars(k) =>
                  result'.num_output_group = (IF k >= 1 THEN k ELSE 1)
           /\ result' = [result EXCEPT !.num_output_group = result'.num_output_group]
     /\ result'.num_output_group # result.num_output_group
        => (Dispatching("String", "LearnerParamHandler") /\ TopHandler.cur_key = "num_class")
     /\ result'.num_output_group >= 1]_vars

\* num_class "-2" has replaced the 3 an earlier num_class "3" had stored by 1
C11_Witness ==
  /\ status = "parsing" /\ pos > 4
  /\ TopHandler.h = "LearnerParamHandler" /\ TopHandler.cur_key = "num_class"
  /\ LastEvent.c = <<"-", "2">>
  /\ doc[pos - 3].c = <<"3">> /\ doc[pos - 4] = EvKey("num_class")
  /\ result.num_output_group = 1

\* the number of objects and arrays of document d open after its first k events
OpenValues(d, k) ==
  Cardinality({j \in 1 .. k : d[j].t \in {"StartObject", "StartArray"}})
    - Cardinality({j \in 1 .. k : d[j].t \in {"EndObject", "EndArray"}})

\* every callback so far has returned true
Accepted == status \in {"parsing", "done"}

\* the root object has been opened and its EndObject accepted
RootClosed ==
  /\ Accepted /\ pos > 1
  /\ doc[1].t = "StartObject" /\ OpenValues(doc, pos - 1) = 0

\* C12 as stated: the stack is not empty when an event is forwarded, and it
\* is empty exactly once the root object has closed.
C12_EmptyAtRootClose ==
  /\ (status = "parsing" /\ pos <= Len(doc)) => delegates # <<>>
  /\ Accepted => (RootClosed <=> delegates = <<>>)

\* C12, amended: the stack is never empty while the load is defined; the
\* root handler stays at its bottom, and once the root object has closed the
\* stack holds the root handler alone, as before the root object opened.
C12_RootHandlerStays ==
  status \in {"parsing", "failed", "fatal", "done"} =>
    /\ delegates # <<>>
    /\ delegates[1].h = "RootHandler"
    /\ \A i \in 2 .. Len(delegates) : delegates[i].h # "RootHandler"
    /\ (Accepted /\ pos > 1) => (RootClosed <=> Len(delegates) = 1)

\* a load has returned a model with a tree, the root handler alone on the stack
C12_Witness ==
  /\ status = "done" /\ RootClosed
  /\ delegates = <<Frame("RootHandler", "result")>>
  /\ Len(returned[1].trees) = 1

IgnoreOnTop == status = "parsing" /\ pos <= Len(doc) /\ TopHandler.h = "IgnoreHandler"

\* C13: an IgnoreHandler is pushed on top of the unchanged stack without a
\* change to the model or to a handler's members; while one is on top every
\* event is accepted and changes neither the model nor a handler's members, a
\* Start event pushes one more IgnoreHandler, an End event pops one and no
\* other event changes the stack.  The stack holds one handler per open value
\* above the root handler, so the first IgnoreHandler goes with the End event
\* that matches its Start event, and the handler that pushed it is on top
\* again, as it was.
C13_IgnoreConsumesOneValue ==
  [][/\ (IgnoreOnTop /\ doc[pos].t # "SyntaxError")
        => /\ status' = "parsing"
           /\ UNCHANGED <<result, version, objective, rt>>
           /\ delegates' =
                (CASE doc[pos].t \in {"StartObject", "StartArray"} ->
                        Append(delegates, Frame("IgnoreHandler", ""))
                   [] doc[pos].t \in {"EndObject", "EndArray"} ->
                        SubSeq(delegates, 1, Len(delegates) - 1)
                   [] OTHER -> delegates)
     /\ (status' = "parsing" /\ Len(delegates') > Len(delegates)
         /\ delegates'[Len(delegates')].h = "IgnoreHandler")
        => /\ delegates' = Append(delegates, Frame("IgnoreHandler", ""))
           /\ UNCHANGED <<result, version, objective, rt>>
     /\ Accepted' => Len(delegates') = 1 + OpenValues(doc, pos' - 1)]_vars

\* the learner handler is on top again after "attributes" held an array
\* inside an object, and the model is still as it was made
C13_Witness ==
  /\ status = "parsing" /\ pos > 5
  /\ TopHandler.h = "LearnerHandler" /\ TopHandler.cur_key = "attributes"
  /\ LastEvent.t = "EndObject" /\ doc[pos - 2].t = "EndArray"
  /\ doc[pos - 3].t = "Int64"
  /\ result = NewModel

\* the Start events of the values that enclose event k of d, outermost first:
\* the value at nesting level i is the one opened last at that level
Ancestors(d, k) ==
  LET depth == [j \in 0 .. k - 1 |-> OpenValues(d, j)]
      OpenedAt(i) == {j \in 1 .. k - 1 :
                        d[j].t \in {"StartObject", "StartArray"} /\ depth[j - 1] = i - 1}
  IN [i \in 1 .. depth[k - 1] |->
        CHOOSE j \in OpenedAt(i) : \A j2 \in OpenedAt(i) : j2 <= j]

\* the key under which the value starting at event j stands, "" for the root
\* and for an element of an array
KeyOf(d, j) == IF j > 1 /\ d[j - 1].t = "Key" THEN d[j - 1].s ELSE ""

\* the keys of the values that enclose event k, outermost first
KeyPath(d, k) ==
  LET anc == Ancestors(d, k) IN [i \in 1 .. Len(anc) |-> KeyOf(d, anc[i])]

\* event k opens an object that is an element of the "trees" array
IsTreeObject(d, k) ==
  /\ d[k].t = "StartObject"
  /\ OpenValues(d, k - 1) = 5
  /\ KeyPath(d, k) = <<"", "learner", "gradient_booster", "model", "trees">>
  /\ d[Ancestors(d, k)[5]].t = "StartArray"

\* the tree objects among the first k events of d
TreeObjects(d, k) == {j \in 1 .. k : IsTreeObject(d, j)}

\* the number of events handled with success
Handled == IF status = "parsing" THEN pos - 1 ELSE pos - 2

\* a tree object is open: its StartObject was accepted, its EndObject not
InTreeObject ==
  LET path == KeyPath(doc, Handled + 1)
  IN Len(path) >= 6
     /\ SubSeq(path, 1, 6) = <<"", "learner", "gradient_booster", "model", "trees", "">>

RECURSIVE Reach(_, _)
Reach(r, S) ==
  LET T == S \cup {r.left_children[i + 1] : i \in S} \cup {r.right_children[i + 1] : i \in S}
      U == T \ {-1}
  IN IF U = S THEN S ELSE Reach(r, U)

\* how often old ID i was taken from the queue
Visits(i) == Cardinality({k \in 1 .. Len(rt.visited) : rt.visited[k][1] = i})

\* pair k of visited was pushed when an earlier pair, of a node with a left
\* child, was visited: it holds a child entry of that node and the new ID of
\* the child allocated for it
PushedByParent(k) ==
  \E j \in 1 .. k - 1 :
    LET old_id == rt.visited[j][1]
        node == LastTree[rt.visited[j][2] + 1]
    IN /\ rt.left_children[old_id + 1] # -1
       /\ \/ rt.visited[k] = <<rt.left_children[old_id + 1], node.cleft>>
          \/ rt.visited[k] = <<rt.right_children[old_id + 1], node.cright>>

\* C15 as stated: the reconstruction of a tree that passed the length check
\* visits every old ID of 0 .. num_nodes - 1 exactly once, old ID 0 first,
\* and every other one after the node that lists it as a child.
C15_EveryNodeOnce ==
  Reconstructed =>
    /\ rt.visited[1] = <<0, 0>>
    /\ \A i \in 0 .. rt.num_nodes - 1 : Visits(i) = 1
    /\ \A k \in 2 .. Len(rt.visited) : PushedByParent(k)

\* C15, amended: the reconstruction starts with old ID 0 and takes a pair
\* from the queue only after the node that lists it as a child was visited
\* and had its children allocated; when the child arrays describe a binary
\* tree it visits once every old ID reached from 0, and no other.
C15_ReachableOnce ==
  rt.visited # <<>> =>
    /\ rt.visited[1] = <<0, 0>>
    /\ \A k \in 2 .. Len(rt.visited) : PushedByParent(k)
    /\ (Reconstructed /\ WellFormed(rt)) =>
         \A i \in 0 .. Len(rt.left_children) - 1 :
           Visits(i) = (IF i \in Reach(rt, {0}) THEN 1 ELSE 0)

\* a three-node tree whose left child is old ID 2: old and new IDs differ
C15_Witness ==
  /\ status = "done"
  /\ rt.left_children = <<2, -1, -1>> /\ rt.right_children = <<1, -1, -1>>
  /\ rt.visited = <<<<0, 0>>, <<2, 1>>, <<1, 2>>>>

\* the largest number of objects and arrays of d open at once
MaxNesting(d) ==
  LET depths == {OpenValues(d, k) : k \in 0 .. Len(d)}
  IN CHOOSE m \in depths : \A n \in depths : n <= m

\* C16 as stated: when every event of the document has been accepted, the
\* largest depth the stack has had is the largest nesting depth of the
\* document.
C16_DepthIsNesting == status = "done" => depth_max = MaxNesting(doc)

\* C16, amended: the stack holds the root handler and one handler for each
\* open object or array, so the largest depth it has had is the largest
\* nesting depth of the document plus one.
C16_DepthIsNestingPlusOne ==
  /\ Accepted => Len(delegates) = 1 + OpenValues(doc, pos - 1)
  /\ depth_max >= Len(delegates)
  /\ status = "done" => depth_max = MaxNesting(doc) + 1

\* a document nested seven deep (an array of a tree) has been loaded
C16_Witness ==
  /\ status = "done" /\ MaxNesting(doc) = 7 /\ depth_max = 8
  /\ Len(returned[1].trees) = 1

UnusedArrays == {"base_weights", "leaf_child_counts", "parents"}

\* the tree handler's members with other contents, of the same lengths, in
\* some of base_weights, leaf_child_counts and parents
Variants(r) ==
  LET Other(v) == {v} \cup {[i \in DOMAIN v |-> c] : c \in {-1, 0, 7}}
  IN {[r EXCEPT !.base_weights = b, !.leaf_child_counts = l, !.parents = p] :
        b \in Other(r.base_weights), l \in Other(r.leaf_child_counts),
        p \in Other(r.parents)}

\* what EndObject may do with the tree handler's members r: the value it
\* returns (or how it ends otherwise), the trees and the stack it leaves
TreeOutcomes(r) ==
  {[how |-> o.how, trees |-> o.st.result.trees, delegates |-> o.st.delegates] :
     o \in RegTreeHandler_EndObject([Cur EXCEPT !.rt = r])}

\* C17: when a tree object closes, what EndObject returns and the tree it
\* leaves are the same for every other content of base_weights,
\* leaf_child_counts and parents of the same lengths; an element of one of
\* these arrays is accepted by its kind alone and is only appended to its
\* array.
C17_UnusedArrays ==
  [][/\ Dispatching("EndObject", "RegTreeHandler")
        => \A v \in Variants(rt) : TreeOutcomes(v) = TreeOutcomes(rt)
     /\ (status = "parsing" /\ pos <= Len(doc) /\ TopHandler.h = "ArrayHandler"
         /\ TopHandler.out \in UnusedArrays
         /\ doc[pos].t \notin {"EndArray", "SyntaxError"})
        => /\ (status' = "parsing") <=>
                (doc[pos].t \in (IF TopHandler.out = "base_weights" THEN {"Double"}
                                 ELSE {"Int", "Uint"}))
           /\ status' \in {"parsing", "failed"}
           /\ UNCHANGED <<result, delegates>>
           /\ \A a \in ArrayNames \ {TopHandler.out} : rt'[a] = rt[a]]_vars

\* a three-node tree has been rebuilt; its three unused arrays were filled
C17_Witness ==
  /\ status = "parsing" /\ pos > 1 /\ result.trees # <<>>
  /\ LastEvent.t = "EndObject"
  /\ TopHandler.h = "ArrayHandler" /\ TopHandler.out = "trees"
  /\ rt.base_weights = <<30, 31, 32>> /\ rt.parents = <<-1, 0, 1>>
  /\ rt.leaf_child_counts = <<0, 0, 0>>
  /\ Len(LastTree) = 3 /\ LastTree[2].leaf_value = 41
  /\ Cardinality(Variants(rt)) = 48

\* C18 as stated: the loop over the queue of a tree that passed the length
\* check comes to its end.  (The loop is followed for more iterations than a
\* reconstruction that ends can take on trees of the sizes examined.)
C18_LoopTerminates == status # "diverged"

\* C19 as stated: every old ID the loop of RegTreeHandler's EndObject takes
\* from the queue is an index of the arrays it reads, so the reconstruction
\* never ends in an out-of-range read.
C19_OldIdsValid ==
  ~(status = "undefined" /\ delegates # <<>> /\ Top(Cur).h = "RegTreeHandler")

\* C20 as stated: when XGBoostModelHandler's EndObject passes the member
\* count check and goes on to read version[0], the version vector has an
\* element.
C20_VersionNonEmpty ==
  (Dispatching("EndObject", "XGBoostModelHandler") /\ MemberCountOk(doc[pos].n)) =>
    version # <<>>

====
